---- MODULE Spec2Model ----
(***************************************************************************)
(* Model of the swarm trade-graph client:                                  *)
(*   - fetchTradeHistory      (src/client/src/lib/api.ts, 7-day variant),  *)
(*   - GraphVisualization     (src/client/src/components/ZoomControls.tsx, *)
(*                             last variant: fetchData, processTradeData,  *)
(*                             the visualization effect and the pointer    *)
(*                             and drag handlers it binds, handleResize,   *)
(*                             calculateNodeColor),                        *)
(*   - FilterPanel.handleApplyFilters (src/unnamed/part_001, 7-day         *)
(*                             variant) and Home.handleFilterChange.       *)
(*                                                                         *)
(* Timestamps are counted in whole days.  Numbers that the code parses     *)
(* with parseFloat are integers here; quotients are kept as fractions.     *)
(***************************************************************************)
EXTENDS Integers, Sequences, FiniteSets, TLC

VARIABLES
    filters,          \* Home: the filters state / GraphVisualization's prop
    pageLimit,        \* the remote API: the most pages it declares for a query
    calls,            \* calls[c]: the c-th fetchData run and its fetchTradeHistory call
    loading,          \* GraphVisualization useState
    loadingProgress,  \* GraphVisualization useState
    error,            \* GraphVisualization useState
    empty,            \* GraphVisualization useState
    tradeData,        \* GraphVisualization useState
    graph,            \* GraphVisualization useState
    stats,            \* GraphVisualization useState
    data,             \* processTradeData: the argument of the last call
    out,              \* processTradeData: what that call built and handed on
    again,            \* processTradeData: the same for a second call on that list
    simulations,      \* d3 force simulations created so far: TRUE while running
    simulationRef,    \* simulationRef.current: index in simulations, 0 for null
    cleanup,          \* the last run of the effect returned its cleanup
    bound,            \* what the handlers bound to the circles closed over
    selectedNodeId,   \* GraphVisualization useState
    tooltipDisplay,   \* tooltipRef.current.style.display
    showTooltips,     \* Home: visualSettings.showTooltips
    mounted,          \* GraphVisualization is mounted
    alphaTarget,      \* alphaTarget[i]: the alpha target of simulations[i]
    gestures,         \* d3-drag: the drag gestures in progress
    fixed,            \* fixed[id]: fx, fy of the node object id of graph
    counts,           \* calculateNodeColor: the arguments of the last call
    color             \* calculateNodeColor: what that call returned

vars == <<filters, pageLimit, calls, loading, loadingProgress, error, empty,
          tradeData, graph, stats, data, out, again, simulations,
          simulationRef, cleanup, bound, selectedNodeId, tooltipDisplay,
          showTooltips, mounted, alphaTarget, gestures, fixed, counts,
          color>>

viewVars == <<loading, loadingProgress, error, empty, tradeData, graph, stats>>
fetchVars == <<filters, pageLimit, calls>>
aggVars == <<data, out, again>>
colorVars == <<counts, color>>
dragVars == <<gestures, fixed>>
visVars == <<simulations, simulationRef, cleanup, bound, selectedNodeId,
             tooltipDisplay, showTooltips, mounted, alphaTarget, dragVars>>

-----------------------------------------------------------------------------
(* Bounds of the model *)

MaxTrades == 3        \* longest trade list handed to processTradeData
MaxPages == 5         \* largest num_pages declared to a single call
AppPages == 3         \* largest num_pages declared while the application runs
MaxCount == 10        \* buyCount, sellCount: 0..MaxCount and a few more
MaxSimulations == 3   \* most simulations a visual-settings change may add to
MaxCalls == 2         \* fetchData runs per behaviour of the application
MaxGestures == 2      \* pointers (the mouse, touches) that can drag at a time

-----------------------------------------------------------------------------
(* Values *)

NULL == <<>>
Undefined == "undefined"      \* a link end no leg has set yet

Rat(n, d) == [num |-> n, den |-> d]
RatEq(a, b) == a.num * b.den = b.num * a.den

Wallets == {"A", "B", "C"}      \* wallet addresses: non-empty strings
TradeIds == {1, 2}
Directions == {"buy", "sell"}
Amounts == {0, 1}

\* Timestamps (days) a caller or the filter form supplies: the differences
\* range over -1, 0, 1, 6, 7 (one week), 8 and 9.
FromValues == {0, 1}
ToValues == {0, 1, 7, 8, 9}

\* A Trade (types/trade.ts) reduced to the fields processTradeData reads.
Trade(id, w, dir, amt) ==
    [trade_id |-> id, wallet |-> w, subaccount_id |-> 1, direction |-> dir,
     trade_amount |-> amt, trade_price |-> 3, index_price |-> 2,
     timestamp |-> 0]

\* The legs the trade lists handed to processTradeData are made of.
LegWallets == {"A", "B"}
Legs == {Trade(id, w, dir, amt) : id \in TradeIds, w \in LegWallets,
                                  dir \in Directions, amt \in Amounts}

-----------------------------------------------------------------------------
(* processTradeData *)

\* Position of key k in an insertion-ordered Map kept as a sequence (0: absent).
MapIndex(m, k) ==
    IF \E i \in DOMAIN m : m[i].id = k
    THEN CHOOSE i \in DOMAIN m : m[i].id = k
    ELSE 0

\* The fallback dimensions of the SVG element.
width == 800
height == 600

\* Math.random(): a stream of draws in [0, 1), two for every new wallet.
RandomStreams ==
    LET n == 2 * Cardinality(Wallets)
    IN  {[k \in 1..n |-> Rat(0, 1)], [k \in 1..n |-> Rat(k, n + 1)]}

NewWallet(w, drawX, drawY) ==
    [id |-> w, totalAmount |-> 0, totalNotionalVolume |-> 0, tradeCount |-> 0,
     buyCount |-> 0, sellCount |-> 0, subaccountIds |-> <<>>,
     x |-> Rat(drawX.num * width, drawX.den),
     y |-> Rat(drawY.num * height, drawY.den)]

\* Faulty variant: the notional volume taken at the trade price.
UpdateWalletAtTradePrice(wallet, trade) ==
    [wallet EXCEPT
        !.tradeCount = @ + 1,
        !.totalAmount = @ + trade.trade_amount,
        !.totalNotionalVolume = @ + trade.trade_amount * trade.trade_price,
        !.subaccountIds =
            IF \E i \in DOMAIN @ : @[i] = trade.subaccount_id
            THEN @ ELSE Append(@, trade.subaccount_id),
        !.buyCount = IF trade.direction = "buy" THEN @ + 1 ELSE @,
        !.sellCount = IF trade.direction = "buy" THEN @ ELSE @ + 1]

\* One forEach step on the wallet accumulator of trade.wallet.
UpdateWallet(wallet, trade) ==
    [wallet EXCEPT
        !.tradeCount = @ + 1,
        !.totalAmount = @ + trade.trade_amount,
        !.totalNotionalVolume = @ + trade.trade_amount * trade.index_price,
        !.subaccountIds =
            IF \E i \in DOMAIN @ : @[i] = trade.subaccount_id
            THEN @ ELSE Append(@, trade.subaccount_id),
        !.buyCount = IF trade.direction = "buy" THEN @ + 1 ELSE @,
        !.sellCount = IF trade.direction = "buy" THEN @ ELSE @ + 1]

TrackWallet(walletMap, trade, random) ==
    LET k == Len(walletMap) + 1
        m == IF MapIndex(walletMap, trade.wallet) = 0
             THEN Append(walletMap, NewWallet(trade.wallet, random[2 * k - 1],
                                              random[2 * k]))
             ELSE walletMap
        i == MapIndex(m, trade.wallet)
    IN  [m EXCEPT ![i] = UpdateWallet(m[i], trade)]

NewLink(trade) ==
    [id |-> trade.trade_id, source |-> Undefined, target |-> Undefined,
     amount |-> trade.trade_amount, price |-> trade.trade_price,
     timestamp |-> trade.timestamp]

\* Faulty variant: the two directions swapped.
SetEndpointSwapped(link, trade) ==
    IF trade.direction = "buy"
    THEN [link EXCEPT !.source = trade.wallet]
    ELSE [link EXCEPT !.target = trade.wallet]

SetEndpoint(link, trade) ==
    IF trade.direction = "buy"
    THEN [link EXCEPT !.target = trade.wallet]
    ELSE [link EXCEPT !.source = trade.wallet]

\* Faulty variant: a leg on a side that is already set adds a second link.
TrackLinkPerPair(tradeLinks, trade) ==
    LET m == IF MapIndex(tradeLinks, trade.trade_id) = 0
             THEN Append(tradeLinks, NewLink(trade))
             ELSE tradeLinks
        i == MapIndex(m, trade.trade_id)
        end == IF trade.direction = "buy" THEN m[i].target ELSE m[i].source
    IN  IF end = Undefined
        THEN [m EXCEPT ![i] = SetEndpoint(m[i], trade)]
        ELSE Append(m, SetEndpoint(m[i], trade))

TrackLink(tradeLinks, trade) ==
    LET m == IF MapIndex(tradeLinks, trade.trade_id) = 0
             THEN Append(tradeLinks, NewLink(trade))
             ELSE tradeLinks
        i == MapIndex(m, trade.trade_id)
    IN  [m EXCEPT ![i] = SetEndpoint(m[i], trade)]

RECURSIVE FoldTrades(_, _, _, _)
FoldTrades(trades, walletMap, tradeLinks, random) ==
    IF trades = <<>>
    THEN [walletMap |-> walletMap, tradeLinks |-> tradeLinks]
    ELSE FoldTrades(Tail(trades),
                    TrackWallet(walletMap, Head(trades), random),
                    TrackLink(tradeLinks, Head(trades)), random)

\* Faulty variant: the volume of the last wallet, not the largest.
MaxVolumeOfLast(walletMap, acc) ==
    IF walletMap = <<>> THEN acc
    ELSE walletMap[Len(walletMap)].totalNotionalVolume

RECURSIVE MaxVolume(_, _)
MaxVolume(walletMap, acc) ==
    IF walletMap = <<>> THEN acc
    ELSE MaxVolume(Tail(walletMap),
                   IF Head(walletMap).totalNotionalVolume > acc
                   THEN Head(walletMap).totalNotionalVolume ELSE acc)

NodeType(wallet) ==
    IF wallet.buyCount > wallet.sellCount THEN "buyer"
    ELSE IF wallet.sellCount > wallet.buyCount THEN "seller"
    ELSE "mixed"

\* Faulty variant: the random position leaks into totalAmount.
MakeNodeAtPosition(wallet, maxNotionalVolume) ==
    [id |-> wallet.id,
     totalAmount |-> wallet.totalAmount + wallet.x.num,
     totalNotionalVolume |-> wallet.totalNotionalVolume,
     maxAmount |-> maxNotionalVolume,
     size |-> wallet.totalNotionalVolume,
     normalizedSize |-> IF maxNotionalVolume > 0
                        THEN Rat(wallet.totalNotionalVolume, maxNotionalVolume)
                        ELSE Rat(1, 1),
     tradeCount |-> wallet.tradeCount,
     buyCount |-> wallet.buyCount,
     sellCount |-> wallet.sellCount,
     subaccountIds |-> wallet.subaccountIds,
     type |-> IF wallet.buyCount > wallet.sellCount THEN "buyer"
              ELSE IF wallet.sellCount > wallet.buyCount THEN "seller"
              ELSE "mixed"]

MakeNode(wallet, maxNotionalVolume) ==
    [id |-> wallet.id,
     totalAmount |-> wallet.totalAmount,
     totalNotionalVolume |-> wallet.totalNotionalVolume,
     maxAmount |-> maxNotionalVolume,
     size |-> wallet.totalNotionalVolume,
     normalizedSize |-> IF maxNotionalVolume > 0
                        THEN Rat(wallet.totalNotionalVolume, maxNotionalVolume)
                        ELSE Rat(1, 1),
     tradeCount |-> wallet.tradeCount,
     buyCount |-> wallet.buyCount,
     sellCount |-> wallet.sellCount,
     subaccountIds |-> wallet.subaccountIds,
     type |-> NodeType(wallet)]

\* JavaScript truthiness of a link end: undefined and "" are falsy.
Truthy(v) == v \notin {Undefined, ""}

\* Faulty variant: one end is enough.
CompleteLinkEither(link) == Truthy(link.source) \/ Truthy(link.target)

CompleteLink(link) == Truthy(link.source) /\ Truthy(link.target)

\* Faulty variant: the last node is left out.
SumOfButLast(nodes, field) ==
    LET sum[k \in 0..Len(nodes)] ==
            IF k = 0 THEN 0 ELSE sum[k - 1] + nodes[k][field]
    IN  IF nodes = <<>> THEN 0 ELSE sum[Len(nodes) - 1]

RECURSIVE SumOf(_, _)
SumOf(nodes, field) ==
    IF nodes = <<>> THEN 0 ELSE Head(nodes)[field] + SumOf(Tail(nodes), field)

\* The graph and the stats processTradeData hands to setGraph and setStats,
\* and the wallet accumulators it built on the way (which it hands to nobody).
processTradeData(trades, random) ==
    LET maps == FoldTrades(trades, <<>>, <<>>, random)
        maxNotionalVolume == MaxVolume(maps.walletMap, 0)
        nodes == [i \in DOMAIN maps.walletMap |->
                     MakeNode(maps.walletMap[i], maxNotionalVolume)]
        links == SelectSeq(maps.tradeLinks, CompleteLink)
    IN  [walletMap |-> maps.walletMap,
         graph |-> [nodes |-> nodes, links |-> links],
         stats |-> [nodeCount |-> Len(nodes),
                    edgeCount |-> Len(links),
                    totalVolume |-> Rat(SumOf(nodes, "totalAmount"), 2),
                    totalNotionalVolume |->
                        Rat(SumOf(nodes, "totalNotionalVolume"), 2)]]

-----------------------------------------------------------------------------
(* calculateNodeColor *)

\* An hsl(h, s%, l%) string: the three numbers, s and l as fractions.
Hsl(h, s, l) == [hue |-> h, saturation |-> s, lightness |-> l]

Gray == Hsl(210, Rat(10, 1), Rat(70, 1))
Red == Hsl(0, Rat(100, 1), Rat(50, 1))
Green == Hsl(142, Rat(100, 1), Rat(45, 1))

Abs(i) == IF i < 0 THEN -i ELSE i

\* The <<buyCount, total>> with total < 260 for which the double-precision
\* product (buyCount / total) * 100 falls just below its exact integer value.
RoundsBelow ==
    {<<29, 50>>, <<29, 100>>, <<57, 100>>, <<58, 100>>, <<87, 150>>,
     <<114, 200>>, <<116, 200>>}

\* Math.floor((buyCount / total) * 100) in double precision.
BuyRatio(buyCount, total) ==
    (100 * buyCount) \div total
        - (IF <<buyCount, total>> \in RoundsBelow THEN 1 ELSE 0)

\* Faulty variant: the gradient runs from green to red.
HueReversed(buyRatio) == (142 * (100 - buyRatio)) \div 100

\* Math.floor((buyRatio / 100) * (142 - 0) + 0)
Hue(buyRatio) == (142 * buyRatio) \div 100

calculateNodeColor(buyCount, sellCount) ==
    IF buyCount = 0 /\ sellCount = 0 THEN Gray
    ELSE LET total == buyCount + sellCount
             buyRatio == BuyRatio(buyCount, total)
         IN  IF buyRatio = 0 THEN Red
             ELSE IF buyRatio = 100 THEN Green
             ELSE Hsl(Hue(buyRatio),
                      Rat(850 - Abs(buyRatio - 50), 10),
                      Rat(450 - Abs(buyRatio - 50), 10))

-----------------------------------------------------------------------------
(* fetchTradeHistory *)

oneWeek == 7          \* days
fetchBatchSize == 3
HttpStatus == 500     \* the status of a response that is not ok

\* What a page request can come back with.  A 2xx response carries TradeData;
\* a non-2xx response has a body that is JSON with a message field, JSON
\* without one, or no JSON at all; "network" is fetch() itself rejecting.
ErrorBodies == {"message", "nomessage", "unparseable"}
Failures == ErrorBodies \cup {"network"}

RemoteMessage == <<"Lyra API error">>       \* the message field of the body
NetworkError == <<"Failed to fetch">>
RangeError == <<"Time range cannot exceed 7 days">>

\* The trades the server holds on page p: the two legs of trade p.
PageTrades(p) ==
    <<Trade(p, "A", "sell", 1),
      Trade(p, IF p % 2 = 1 THEN "B" ELSE "C", "buy", 1)>>

\* The first responses (TradeData: trades and pagination) the server can give.
FirstResponses(limit) ==
    {[trades |-> <<>>, pagination |-> [num_pages |-> n]] : n \in 0..1}
    \cup {[trades |-> PageTrades(1), pagination |-> [num_pages |-> n]] :
             n \in 1..limit}

\* Faulty variant: the caller's page is sent.
FirstRequestPageOfCaller(f) == IF f = NULL THEN 1 ELSE f.page

\* The page number in the body of the first request.
FirstRequestPage(f) == 1

\* Faulty variant: a range of exactly one week is refused too.
RangeTooLongInclusive(f) == f.toTimestamp - f.fromTimestamp >= oneWeek

\* if ((toTimestamp - fromTimestamp) > oneWeek) throw ...
RangeTooLong(f) == f.toTimestamp - f.fromTimestamp > oneWeek

\* try { errorData = await response.json(); throw new Error(errorData?.message
\* || fallback) } catch (parseError) { throw new Error(replacement) }:
\* the catch clause also catches the Error the try block throws itself.
TryCatch(thrown, replacement) == replacement

FirstPageError(body) ==
    IF body = "network" THEN NetworkError
    ELSE TryCatch(IF body = "unparseable" THEN <<"SyntaxError">>
                  ELSE IF body = "message" THEN RemoteMessage
                  ELSE <<"API returned", HttpStatus>>,
                  <<"API error", HttpStatus>>)

BatchPageError(batchPage, body) ==
    IF body = "network" THEN NetworkError
    ELSE TryCatch(IF body = "unparseable" THEN <<"SyntaxError">>
                  ELSE IF body = "message" THEN RemoteMessage
                  ELSE <<"Failed to fetch page", batchPage>>,
                  <<"API error on page", batchPage, HttpStatus>>)

FirstProgress(num_pages) ==
    [currentPage |-> 1, totalPages |-> num_pages,
     percentage |-> IF num_pages <= 1 THEN Rat(100, 1) ELSE Rat(100, num_pages)]

BatchProgress(currentPage, totalPages) ==
    [currentPage |-> currentPage, totalPages |-> totalPages,
     percentage |-> Rat(currentPage * 100, totalPages)]

\* Faulty variant: the inner loop runs one page too far.
BatchPagesOneMore(page, totalPages) ==
    {batchPage \in page..(page + fetchBatchSize) : batchPage <= totalPages}

\* for (batchPage = page; batchPage < page + fetchBatchSize &&
\*      batchPage <= totalPages; batchPage++)
BatchPages(page, totalPages) ==
    {batchPage \in page..(page + fetchBatchSize - 1) : batchPage <= totalPages}

RECURSIVE Ascending(_)
Ascending(S) ==
    IF S = {} THEN <<>>
    ELSE LET m == CHOOSE x \in S : \A y \in S : x <= y
         IN  <<m>> \o Ascending(S \ {m})

\* batchResults.forEach(trades => allTrades.push(...trades)): Promise.all
\* keeps the order in which the promises were pushed on the batch.
RECURSIVE PushAll(_, _, _)
PushAll(allTrades, order, results) ==
    IF order = <<>> THEN allTrades
    ELSE PushAll(allTrades \o results[Head(order)], Tail(order), results)

RECURSIVE Descending(_)
Descending(S) ==
    IF S = {} THEN <<>>
    ELSE LET m == CHOOSE x \in S : \A y \in S : x >= y
         IN  <<m>> \o Descending(S \ {m})

\* Faulty variant: the batch promises are kept last page first.
BatchOrderReversed(page, totalPages) ==
    Descending({batchPage \in page..(page + fetchBatchSize - 1) :
                   batchPage <= totalPages})

\* The order of the promises on the batch array.
BatchOrder(page, totalPages) == Ascending(BatchPages(page, totalPages))

\* A call that has issued the request for the first page.
NewCall(f) ==
    [pc |-> "page1",              \* page1, batch, done, failed
     totalPages |-> 0,
     currentPage |-> 0,
     page |-> 0,                  \* the batch loop variable
     pending |-> {FirstRequestPage(f)},   \* requests in flight
     results |-> <<>>,            \* page :> trades of the batch promises fulfilled
     initialData |-> NULL,
     allTrades |-> <<>>,
     outcome |-> NULL,            \* the value or the error the call settled with
     issued |-> <<FirstRequestPage(f)>>,  \* history: pages requested, in order
     progress |-> <<>>,           \* history: onProgress notifications, in order
     rejected |-> {},             \* history: pages whose request failed
     reordered |-> FALSE]         \* history: a page resolved before a lower one

\* A call that threw before its first request.
RejectedCall(err) ==
    [NewCall(NULL) EXCEPT !.pc = "failed", !.pending = {}, !.issued = <<>>,
                          !.outcome = [ok |-> FALSE, error |-> err,
                                       cause |-> "range"]]

Resolve(call, value) ==
    [call EXCEPT !.pc = "done", !.outcome = [ok |-> TRUE, value |-> value]]

\* cause (history): what the response that failed the call looked like.
Reject(call, err, cause) ==
    [call EXCEPT !.pc = "failed",
                 !.outcome = [ok |-> FALSE, error |-> err, cause |-> cause]]

\* The request for batchPage failed: its promise is rejected.
PageRejected(call, batchPage) ==
    [call EXCEPT !.pending = @ \ {batchPage}, !.rejected = @ \cup {batchPage}]

\* The batch starting at `page` is issued: every request before the await.
IssueBatch(call, page) ==
    [call EXCEPT
        !.pc = "batch",
        !.page = page,
        !.pending = @ \cup BatchPages(page, call.totalPages),
        !.results = <<>>,
        !.issued = @ \o BatchOrder(page, call.totalPages)]

\* The first response is ok: progress, then return or the first batch.
AfterFirstPage(call, initialData) ==
    LET n == initialData.pagination.num_pages
        c1 == [call EXCEPT
                  !.pending = {},
                  !.initialData = initialData,
                  !.progress = Append(@, FirstProgress(n))]
    IN  IF n <= 1
        THEN Resolve(c1, initialData)
        ELSE IssueBatch([c1 EXCEPT !.totalPages = n, !.currentPage = 1,
                                   !.allTrades = initialData.trades], 2)

\* Faulty variant: the notification carries the number of the page that resolved.
NextCountIsPage(call, batchPage) == batchPage

\* currentPage++ in the second .then of the promise of batchPage.
NextCount(call, batchPage) == call.currentPage + 1

\* The second .then of a batch promise: count, notify, hand over the trades.
PageFulfilled(call, batchPage, trades) ==
    [call EXCEPT
        !.pending = @ \ {batchPage},
        !.currentPage = NextCount(call, batchPage),
        !.progress = Append(@, BatchProgress(NextCount(call, batchPage),
                                             call.totalPages)),
        !.results = IF call.pc = "batch"
                    THEN [q \in DOMAIN @ \cup {batchPage} |->
                             IF q = batchPage THEN trades ELSE @[q]]
                    ELSE @,
        !.reordered = @ \/ \E q \in call.pending : q < batchPage]

\* await Promise.all(batch) returns: collect, then the next batch or return.
AfterBatch(call) ==
    LET allTrades == PushAll(call.allTrades,
                             BatchOrder(call.page, call.totalPages),
                             call.results)
        c1 == [call EXCEPT !.allTrades = allTrades, !.results = <<>>]
        next == call.page + fetchBatchSize
    IN  IF next <= call.totalPages
        THEN IssueBatch(c1, next)
        ELSE Resolve(c1, [trades |-> allTrades,
                          pagination |-> call.initialData.pagination])

\* Faulty variant: the await returns for a batch of three pages only.
BatchCompleteAtThree(call) == Cardinality(DOMAIN call.results) = fetchBatchSize

BatchComplete(call) ==
    DOMAIN call.results = BatchPages(call.page, call.totalPages)

-----------------------------------------------------------------------------
(* GraphVisualization: the fetchData effect *)

nCalls == Len(calls)

\* useState initial values of graph and stats.
EmptyGraph == [nodes |-> <<>>, links |-> <<>>]
ZeroStats == [nodeCount |-> 0, edgeCount |-> 0, totalVolume |-> Rat(0, 1),
              totalNotionalVolume |-> Rat(0, 1)]

Last(seq) == seq[Len(seq)]

\* try: setTradeData(data); empty or processTradeData(data); finally.
FetchDataResolved(value) ==
    /\ tradeData' = value
    /\ IF value.trades = <<>>
       THEN /\ empty' = TRUE
            /\ UNCHANGED <<graph, stats>>
       ELSE /\ \E random \in RandomStreams :
                  /\ graph' = processTradeData(value.trades, random).graph
                  /\ stats' = processTradeData(value.trades, random).stats
            /\ UNCHANGED empty
    /\ loading' = FALSE
    /\ loadingProgress' = NULL
    /\ UNCHANGED error

\* Faulty variant: a failed fetch also clears the graph and the stats.
FetchDataRejectedClearing(err) ==
    /\ error' = err
    /\ loading' = FALSE
    /\ loadingProgress' = NULL
    /\ graph' = EmptyGraph
    /\ stats' = ZeroStats
    /\ UNCHANGED <<empty, tradeData>>

\* catch: setError(err.message); finally.
FetchDataRejected(err) ==
    /\ error' = err
    /\ loading' = FALSE
    /\ loadingProgress' = NULL
    /\ UNCHANGED <<empty, tradeData, graph, stats>>

\* handleProgress: setLoadingProgress(progress), whichever call notifies.
HandleProgress(note) ==
    /\ loadingProgress' = note
    /\ UNCHANGED <<loading, error, empty, tradeData, graph, stats>>

\* What the view does once the call has moved to `call`.
ViewAfter(call) ==
    IF call.pc = "done" THEN FetchDataResolved(call.outcome.value)
    ELSE HandleProgress(Last(call.progress))

\* The effect on [filters]: fetchData up to its await, and fetchTradeHistory
\* up to its first await (the range check and the first request).
StartFetch(f) ==
    /\ empty' = FALSE
    /\ loadingProgress' = NULL
    /\ UNCHANGED <<tradeData, graph, stats>>
    /\ IF RangeTooLong(f)
       THEN /\ calls' = Append(calls, RejectedCall(RangeError))
            /\ error' = RangeError
            /\ loading' = FALSE
       ELSE /\ calls' = Append(calls, NewCall(f))
            /\ error' = NULL
            /\ loading' = TRUE

-----------------------------------------------------------------------------
(* The visualization effect and the handlers it binds *)

NoSelection == "null"         \* selectedNodeId: null

\* simulation.stop() on simulationRef.current, if there is one.
Stop(sims, ref) == IF ref = 0 THEN sims ELSE [sims EXCEPT ![ref] = FALSE]

\* simulation.restart() on simulationRef.current.
Restart(sims, ref) == [sims EXCEPT ![ref] = TRUE]

\* setGraph was called in this step: graph is a new object with new nodes.
GraphReplaced ==
    \E c \in 1..nCalls :
        /\ calls[c].pc # "done"
        /\ calls'[c].pc = "done"
        /\ calls'[c].outcome.value.trades # <<>>

\* A dependency of the effect changed in this step: a new value of loading,
\* error, empty or visualSettings, or a new graph object from setGraph.
DepsChanged ==
    \/ <<graph, loading, error, empty, showTooltips>>'
          # <<graph, loading, error, empty, showTooltips>>
    \/ GraphReplaced

\* simulation.alphaTarget(): 0 unless set, 0.3 from dragStarted.
AlphaTargetDefault == Rat(0, 1)
AlphaTargetDrag == Rat(3, 10)

\* fx, fy of a node object: never assigned, a number, or null.
Unpinned == {Undefined, "null"}

\* The node objects of a new graph have no fx, fy; the nodes the gestures
\* in progress hold are no longer nodes of graph.
NewNodeObjects ==
    IF GraphReplaced
    THEN /\ fixed' = [id \in Wallets |-> Undefined]
         /\ gestures' = {[g EXCEPT !.detached = TRUE] : g \in gestures}
    ELSE UNCHANGED <<gestures, fixed>>

\* What initializeVisualization binds to the circles: the handlers of the
\* render the effect ran in, with that render's state.
Closure == [selectedNodeId |-> selectedNodeId', showTooltips |-> showTooltips']

\* The effect body past its guard: stop the simulation there is, create one.
SeedSimulation(sims, ref) == Append(Stop(sims, ref), TRUE)

\* React runs the cleanup the previous run returned, then the effect.
visualizationEffect ==
    IF ~DepsChanged
    THEN UNCHANGED <<simulations, simulationRef, cleanup, bound, alphaTarget>>
    ELSE LET cleaned == IF cleanup THEN Stop(simulations, simulationRef)
                        ELSE simulations
         IN  IF loading' \/ error' # NULL \/ empty' \/ graph'.nodes = <<>>
             THEN /\ simulations' = cleaned
                  /\ cleanup' = FALSE
                  /\ UNCHANGED <<simulationRef, bound, alphaTarget>>
             ELSE /\ simulations' = SeedSimulation(cleaned, simulationRef)
                  /\ alphaTarget' = Append(alphaTarget, AlphaTargetDefault)
                  /\ simulationRef' = Len(simulations) + 1
                  /\ cleanup' = TRUE
                  /\ bound' = Closure

\* The render after a step of fetchData.
Effect ==
    /\ mounted
    /\ UNCHANGED <<selectedNodeId, tooltipDisplay, showTooltips, mounted>>
    /\ NewNodeObjects
    /\ visualizationEffect

\* The effect runs for the filters the component was given, with no earlier
\* call outstanding.
Mount ==
    /\ calls = <<>>
    /\ filters # NULL
    /\ StartFetch(filters)
    /\ Effect
    /\ UNCHANGED <<filters, pageLimit, aggVars, colorVars>>

\* FilterPanel.handleApplyFilters with the two timestamps read from the form,
\* then Home.handleFilterChange and the effect.
handleApplyFilters ==
    /\ calls # <<>>
    /\ nCalls < MaxCalls
    /\ \E fromTimestamp \in FromValues, toTimestamp \in ToValues :
          IF toTimestamp - fromTimestamp > oneWeek
          THEN UNCHANGED vars                     \* alert(...); return
          ELSE IF fromTimestamp >= toTimestamp
          THEN UNCHANGED vars                     \* alert(...); return
          ELSE /\ filters' = [filters EXCEPT
                                 !.fromTimestamp = fromTimestamp,
                                 !.toTimestamp = toTimestamp]
               /\ StartFetch(filters')
               /\ Effect
               /\ UNCHANGED <<pageLimit, aggVars, colorVars>>

\* Home.handleFilterChange with no new time range (RETRY QUERY, SYSTEM RESET,
\* a currency or contract type selection): a new filters object, so the
\* effect runs again.
handleFilterChange ==
    /\ calls # <<>>
    /\ nCalls < MaxCalls
    /\ StartFetch(filters)
    /\ Effect
    /\ UNCHANGED <<filters, pageLimit, aggVars, colorVars>>

\* The first request of call c comes back.
FirstPageResponse(c) ==
    /\ calls[c].pc = "page1"
    /\ \/ \E initialData \in FirstResponses(pageLimit) :
             LET call == AfterFirstPage(calls[c], initialData)
             IN  /\ calls' = [calls EXCEPT ![c] = call]
                 /\ ViewAfter(call)
       \/ \E body \in Failures :
             LET err == FirstPageError(body)
             IN  /\ calls' = [calls EXCEPT
                                 ![c] = Reject(PageRejected(@, 1), err, body)]
                 /\ FetchDataRejected(err)
    /\ Effect
    /\ UNCHANGED <<filters, pageLimit, aggVars, colorVars>>

\* The request for page batchPage of call c comes back.
PageResponse(c, batchPage) ==
    /\ calls[c].pc \in {"batch", "failed"}
    /\ batchPage \in calls[c].pending
    /\ \/ \E body \in Failures :
             LET err == BatchPageError(batchPage, body)
                 c1 == PageRejected(calls[c], batchPage)
             IN  IF c1.pc = "batch"
                 THEN /\ calls' = [calls EXCEPT ![c] = Reject(c1, err, body)]
                      /\ FetchDataRejected(err)
                 ELSE /\ calls' = [calls EXCEPT ![c] = c1]
                      /\ UNCHANGED viewVars
       \/ LET c1 == PageFulfilled(calls[c], batchPage, PageTrades(batchPage))
              call == IF c1.pc = "batch" /\ BatchComplete(c1)
                      THEN AfterBatch(c1) ELSE c1
          IN  /\ calls' = [calls EXCEPT ![c] = call]
              /\ ViewAfter(call)
    /\ Effect
    /\ UNCHANGED <<filters, pageLimit, aggVars, colorVars>>

-----------------------------------------------------------------------------
(* The state after construction *)

\* The render surface before any simulation, and with the one simulation of
\* the first graph shown.
RenderInit ==
    /\ simulations = <<>>
    /\ simulationRef = 0
    /\ cleanup = FALSE
    /\ bound = NULL
    /\ selectedNodeId = NoSelection
    /\ tooltipDisplay = "none"
    /\ showTooltips = TRUE
    /\ mounted = TRUE
    /\ alphaTarget = <<>>
    /\ gestures = {}
    /\ fixed = [id \in Wallets |-> Undefined]

RenderSettled ==
    /\ simulations = <<TRUE>>
    /\ simulationRef = 1
    /\ cleanup = TRUE
    /\ bound = [selectedNodeId |-> NoSelection, showTooltips |-> TRUE]
    /\ selectedNodeId = NoSelection
    /\ tooltipDisplay = "none"
    /\ showTooltips = TRUE
    /\ mounted = TRUE
    /\ alphaTarget = <<AlphaTargetDefault>>
    /\ gestures = {}
    /\ fixed = [id \in Wallets |-> Undefined]

ViewInit ==
    /\ RenderInit
    /\ loading = FALSE
    /\ loadingProgress = NULL
    /\ error = NULL
    /\ empty = FALSE
    /\ tradeData = NULL
    /\ graph = EmptyGraph
    /\ stats = ZeroStats

\* The view after a fetch of the one page PageTrades(1) has settled.
ShownData == [trades |-> PageTrades(1), pagination |-> [num_pages |-> 1]]

ViewSettled ==
    /\ RenderSettled
    /\ loading = FALSE
    /\ loadingProgress = NULL
    /\ error = NULL
    /\ empty = FALSE
    /\ tradeData = ShownData
    /\ \E random \in RandomStreams :
          /\ graph = processTradeData(ShownData.trades, random).graph
          /\ stats = processTradeData(ShownData.trades, random).stats

AggIdle ==
    /\ data = NULL /\ out = NULL /\ again = NULL
    /\ counts = NULL /\ color = NULL

-----------------------------------------------------------------------------
(* The application: Home mounts GraphVisualization with its initial filters *)

HomeFilters == [fromTimestamp |-> 0, toTimestamp |-> 3, page |-> 1]

Init ==
    /\ ViewInit
    /\ filters = HomeFilters
    /\ pageLimit = AppPages
    /\ calls = <<>>
    /\ AggIdle

Responses ==
    \E c \in 1..nCalls :
        \/ FirstPageResponse(c)
        \/ \E batchPage \in 2..pageLimit : PageResponse(c, batchPage)

Next ==
    \/ Mount
    \/ handleApplyFilters
    \/ handleFilterChange
    \/ Responses

Spec == Init /\ [][Next]_vars

-----------------------------------------------------------------------------
(* One run of fetchData and fetchTradeHistory, with any Filters, in a view
   that is new or shows the graph of a fetch that has settled *)

CallerPages == {1, 2}

FetchInit ==
    /\ (ViewInit \/ ViewSettled)
    /\ filters \in [fromTimestamp : FromValues, toTimestamp : ToValues,
                    page : CallerPages]
    /\ pageLimit = MaxPages
    /\ calls = <<>>
    /\ AggIdle

FetchNext ==
    \/ Mount
    \/ Responses

FetchSpec == FetchInit /\ [][FetchNext]_vars

\* The same with every request that was issued coming back: the remote API
\* answers or the request fails.
ResponsesFair ==
    /\ WF_vars(calls # <<>> /\ FirstPageResponse(1))
    /\ \A batchPage \in 2..MaxPages :
          WF_vars(calls # <<>> /\ PageResponse(1, batchPage))

FetchLiveSpec == FetchSpec /\ ResponsesFair

-----------------------------------------------------------------------------
(* processTradeData applied to every trade list of at most MaxTrades legs *)

AggInit ==
    /\ ViewInit
    /\ filters = NULL /\ pageLimit = 0 /\ calls = <<>>
    /\ AggIdle

CallProcess ==
    \E leg \in Legs :
        LET trades == IF data = NULL THEN <<leg>> ELSE Append(data, leg)
        IN  /\ Len(trades) <= MaxTrades
            /\ data' = trades
            /\ \E random \in RandomStreams :
                  out' = processTradeData(trades, random)
            /\ \E random \in RandomStreams :
                  again' = processTradeData(trades, random)
            /\ UNCHANGED <<viewVars, fetchVars, visVars, colorVars>>

AggNext == CallProcess

AggSpec == AggInit /\ [][AggNext]_vars

-----------------------------------------------------------------------------
(* calculateNodeColor applied to the counts of a node *)

Counts == 0..MaxCount \cup {29, 71, 100}

ColorInit ==
    /\ ViewInit
    /\ filters = NULL /\ pageLimit = 0 /\ calls = <<>>
    /\ AggIdle

CallColor ==
    \E buyCount \in Counts, sellCount \in Counts :
        /\ counts' = [buyCount |-> buyCount, sellCount |-> sellCount]
        /\ color' = calculateNodeColor(buyCount, sellCount)
        /\ UNCHANGED <<viewVars, fetchVars, visVars, aggVars>>

ColorNext == CallColor

ColorSpec == ColorInit /\ [][ColorNext]_vars

-----------------------------------------------------------------------------
(* The application with the pointer, the window and the settings panel *)

\* The circles are in the SVG and no overlay covers them.
NodesShown ==
    /\ mounted
    /\ bound # NULL
    /\ ~loading /\ error = NULL /\ ~empty

\* showTooltip as bound to mouseover.
showTooltip ==
    /\ NodesShown
    /\ IF bound.selectedNodeId # NoSelection \/ ~bound.showTooltips
       THEN UNCHANGED tooltipDisplay
       ELSE tooltipDisplay' = "block"
    /\ UNCHANGED <<viewVars, fetchVars, aggVars, colorVars, simulations,
                   simulationRef, alphaTarget, dragVars,
                   cleanup, bound, selectedNodeId, showTooltips, mounted>>

\* hideTooltip as bound to mouseout.
hideTooltip ==
    /\ NodesShown
    /\ IF bound.selectedNodeId # NoSelection \/ ~bound.showTooltips
       THEN UNCHANGED tooltipDisplay
       ELSE tooltipDisplay' = "none"
    /\ UNCHANGED <<viewVars, fetchVars, aggVars, colorVars, simulations,
                   simulationRef, alphaTarget, dragVars,
                   cleanup, bound, selectedNodeId, showTooltips, mounted>>

\* handleNodeClick as bound to the click on a circle.
handleNodeClick ==
    /\ NodesShown
    /\ \E n \in DOMAIN graph.nodes :
          IF bound.selectedNodeId = graph.nodes[n].id
          THEN UNCHANGED <<selectedNodeId, tooltipDisplay>>
          ELSE /\ selectedNodeId' = graph.nodes[n].id
               /\ tooltipDisplay' = "none"
    /\ UNCHANGED <<viewVars, fetchVars, aggVars, colorVars, simulations,
                   simulationRef, alphaTarget, dragVars,
                   cleanup, bound, showTooltips, mounted>>

\* clearNodeSelection: a click on the background or on the panel's close button.
clearNodeSelection ==
    /\ mounted
    /\ NodesShown \/ selectedNodeId # NoSelection
    /\ selectedNodeId' = NoSelection
    /\ UNCHANGED <<viewVars, fetchVars, aggVars, colorVars, simulations,
                   simulationRef, alphaTarget, dragVars,
                   cleanup, bound, tooltipDisplay, showTooltips, mounted>>

\* The window's resize listener.
handleResize ==
    /\ mounted
    /\ simulationRef # 0
    /\ simulations' = Restart(simulations, simulationRef)
    /\ UNCHANGED <<viewVars, fetchVars, aggVars, colorVars, simulationRef,
                   cleanup, bound, alphaTarget, dragVars,
                   selectedNodeId, tooltipDisplay, showTooltips, mounted>>

\* Home.handleVisualSettingsChange from the tooltips switch, then the effect.
handleVisualSettingsChange ==
    /\ mounted
    /\ calls # <<>>
    /\ Len(simulations) < MaxSimulations
    /\ showTooltips' = ~showTooltips
    /\ UNCHANGED <<viewVars, fetchVars, aggVars, colorVars, selectedNodeId,
                   tooltipDisplay, mounted, dragVars>>
    /\ visualizationEffect

\* GraphVisualization is unmounted: React runs the cleanup there is.
Unmount ==
    /\ mounted
    /\ calls # <<>>
    /\ mounted' = FALSE
    /\ simulations' = IF cleanup THEN Stop(simulations, simulationRef)
                      ELSE simulations
    /\ UNCHANGED <<viewVars, fetchVars, aggVars, colorVars, simulationRef,
                   cleanup, bound, alphaTarget, dragVars,
                   selectedNodeId, tooltipDisplay, showTooltips>>

VisPages == 2

VisInit ==
    /\ ViewInit
    /\ filters = HomeFilters
    /\ pageLimit = VisPages
    /\ calls = <<>>
    /\ AggIdle

VisNext ==
    \/ Mount
    \/ handleFilterChange
    \/ Responses
    \/ handleVisualSettingsChange
    \/ showTooltip
    \/ hideTooltip
    \/ handleNodeClick
    \/ clearNodeSelection
    \/ handleResize
    \/ Unmount

VisSpec == VisInit /\ [][VisNext]_vars

-----------------------------------------------------------------------------
(* The application with pointers dragging the circles *)

Pointers == 1..MaxGestures

\* event.active: the gestures in progress of a drag behaviour, the one the
\* event is about not counted.
Active(others, drag) == Cardinality({g \in others : g.drag = drag})

\* dragStarted, bound by d3.drag() to the circles of the last
\* initializeVisualization: a pointer goes down on a circle.
dragStarted ==
    /\ NodesShown
    /\ \E pointer \in Pointers, n \in DOMAIN graph.nodes :
          LET d == graph.nodes[n].id
              drag == simulationRef
          IN  /\ \A g \in gestures : g.pointer # pointer
              /\ IF Active(gestures, drag) = 0 /\ simulationRef # 0
                 THEN /\ alphaTarget' = [alphaTarget EXCEPT
                                            ![simulationRef] = AlphaTargetDrag]
                      /\ simulations' = Restart(simulations, simulationRef)
                 ELSE UNCHANGED <<alphaTarget, simulations>>
              /\ fixed' = [fixed EXCEPT ![d] = "d.x"]
              /\ gestures' = gestures \cup
                                {[pointer |-> pointer, drag |-> drag,
                                  subject |-> d, detached |-> FALSE]}
    /\ UNCHANGED <<viewVars, fetchVars, aggVars, colorVars, simulationRef,
                   cleanup, bound, selectedNodeId, tooltipDisplay,
                   showTooltips, mounted>>

\* dragged: the pointer of a gesture moves.
dragged ==
    /\ \E g \in gestures :
          fixed' = IF g.detached THEN fixed
                   ELSE [fixed EXCEPT ![g.subject] = "event.x"]
    /\ UNCHANGED <<viewVars, fetchVars, aggVars, colorVars, simulations,
                   simulationRef, cleanup, bound, selectedNodeId,
                   tooltipDisplay, showTooltips, mounted, alphaTarget,
                   gestures>>

\* dragEnded: the pointer of a gesture goes up.
dragEnded ==
    /\ \E g \in gestures :
          /\ gestures' = gestures \ {g}
          /\ IF Active(gestures \ {g}, g.drag) = 0 /\ simulationRef # 0
             THEN alphaTarget' = [alphaTarget EXCEPT
                                     ![simulationRef] = AlphaTargetDefault]
             ELSE UNCHANGED alphaTarget
          /\ fixed' = IF g.detached THEN fixed
                      ELSE [fixed EXCEPT ![g.subject] = "null"]
    /\ UNCHANGED <<viewVars, fetchVars, aggVars, colorVars, simulations,
                   simulationRef, cleanup, bound, selectedNodeId,
                   tooltipDisplay, showTooltips, mounted>>

DragNext ==
    \/ Mount
    \/ handleFilterChange
    \/ Responses
    \/ handleVisualSettingsChange
    \/ dragStarted
    \/ dragged
    \/ dragEnded

DragSpec == VisInit /\ [][DragNext]_vars

-----------------------------------------------------------------------------
(* Properties *)

IssuedSet(call) == {call.issued[i] : i \in DOMAIN call.issued}

\* The pages of a call whose request came back ok.
Fulfilled(call) == IssuedSet(call) \ (call.pending \cup call.rejected)

\* num_pages of the first response of a call that has got one.
NumPages(call) == call.initialData.pagination.num_pages

\* The batch of page p >= 2 when batches hold three pages: {2,3,4}, {5,6,7}, ...
BatchNo(p) == (p - 2) \div 3

\* C1: when the filters change while an earlier fetchTradeHistory call is in
\* flight, the result of the earlier call (success, empty or error) arriving
\* after the newer fetch has started never updates tradeData, graph, stats,
\* empty or error.
C1_StaleResultDiscarded ==
    [][\A c \in 1..nCalls :
          (/\ c < nCalls
           /\ calls[c].pc \in {"page1", "batch"}
           /\ calls'[c].pc \in {"done", "failed"})
          => UNCHANGED <<tradeData, graph, stats, empty, error>>]_vars

\* C2: pages 2..N are requested in consecutive batches of at most three pages:
\* the pages of a batch are all requested together (so before any of them
\* resolves), and while a request of a batch is unresolved no page of a later
\* batch has been requested; N = 5 gives {2,3,4} then {5}.
C2_BatchesInSequence ==
    \A c \in 1..nCalls :
        LET call == calls[c]
            batched == IssuedSet(call) \ {1}
        IN  /\ \A i \in DOMAIN call.issued : call.issued[i] = i
            /\ batched \subseteq 2..call.totalPages
            /\ \A p \in batched :
                  /\ \A q \in 2..call.totalPages :
                        BatchNo(q) = BatchNo(p) => q \in batched
                  /\ p \in call.pending =>
                        \A q \in batched : BatchNo(q) <= BatchNo(p)
            /\ call.totalPages = 5 =>
                  call.issued \in {<<1>>, <<1, 2, 3, 4>>, <<1, 2, 3, 4, 5>>}

\* C2 witness: with N = 5 the second batch {5} is in flight after the first
\* batch resolved out of page order.
C2_Witness ==
    \E c \in 1..nCalls :
        /\ calls[c].totalPages = 5
        /\ calls[c].pending = {5}
        /\ calls[c].pc = "batch"
        /\ calls[c].reordered

\* C3: a successful call has issued exactly max(1, num_pages) requests, one
\* for each page 1..num_pages, and the first request of every call is for
\* page 1 whatever filters.page is.
C3_OneRequestPerPage ==
    \A c \in 1..nCalls :
        LET call == calls[c]
        IN  /\ call.issued # <<>> => call.issued[1] = 1
            /\ call.pc = "done" =>
                  LET n == NumPages(call)
                      m == IF n > 1 THEN n ELSE 1
                  IN  /\ Len(call.issued) = m
                      /\ \A q \in 1..m :
                            Cardinality({i \in DOMAIN call.issued :
                                            call.issued[i] = q}) = 1

\* C3 witness: a call made with filters.page = 2 succeeded over five pages.
C3_Witness ==
    \E c \in 1..nCalls :
        /\ calls[c].pc = "done"
        /\ NumPages(calls[c]) = 5
        /\ filters.page = 2

\* C4: when a page request of the batch in flight fails, the call rejects in
\* that step with the error of that page (the first failure: the error never
\* changes afterwards), hands over no trade list, and never issues another
\* request (no retry, no later batch); the view sets error to that error and
\* leaves graph, stats and tradeData as they are.
C4_BatchFailureAbortsFetch ==
    [][\A c \in 1..nCalls :
          LET call == calls[c]
              next == calls'[c]
          IN  /\ (call.pc = "batch" /\ next.rejected # call.rejected) =>
                    /\ next.pc = "failed"
                    /\ ~next.outcome.ok
                    /\ \E p \in next.rejected \ call.rejected :
                       \E body \in Failures :
                          next.outcome.error = BatchPageError(p, body)
                    /\ next.issued = call.issued
                    /\ error' = next.outcome.error
                    /\ error' # NULL
                    /\ loading' = FALSE
                    /\ UNCHANGED <<graph, stats, tradeData>>
              /\ call.pc = "failed" =>
                    /\ next.pc = "failed"
                    /\ next.outcome = call.outcome
                    /\ next.issued = call.issued]_vars

\* C4 witness: a call failed on a batch page while the view was showing the
\* graph of an earlier fetch; the error is shown and the graph is still there.
C4_Witness ==
    \E c \in 1..nCalls :
        /\ calls[c].pc = "failed"
        /\ \E p \in calls[c].rejected : p >= 2
        /\ error = calls[c].outcome.error
        /\ graph # EmptyGraph

\* Refuted under Spec: the application does reach the settled view that
\* FetchInit may start from, with every call finished.
SettledViewNeverShown ==
    ~(ViewSettled /\ \A c \in 1..nCalls : calls[c].pending = {}
                                         /\ calls[c].pc \in {"done", "failed"})

\* C5: a call that failed on a non-success response whose body is JSON with a
\* message field rejects with that message; only for a body without message
\* or without JSON does it reject with the status text.
C5_RemoteMessageCarried ==
    \A c \in 1..nCalls :
        LET call == calls[c]
        IN  (call.pc = "failed" /\ call.outcome.cause \in ErrorBodies) =>
                IF call.outcome.cause = "message"
                THEN call.outcome.error = RemoteMessage
                ELSE call.outcome.error # RemoteMessage

\* C6: a call whose range toTimestamp - fromTimestamp exceeds seven days is
\* rejected with the range error having issued no request, and the view
\* shows that error; a range of exactly seven days is not refused.
C6_RangeOverOneWeekRejected ==
    \A c \in 1..nCalls :
        LET call == calls[c]
            range == filters.toTimestamp - filters.fromTimestamp
        IN  /\ range > 7 =>
                  /\ call.pc = "failed"
                  /\ call.outcome.error = RangeError
                  /\ call.issued = <<>>
                  /\ call.pending = {}
                  /\ error = RangeError
            /\ range = 7 =>
                  /\ call.issued # <<>>
                  /\ ~(call.pc = "failed" /\ call.outcome.error = RangeError)

\* C6 witness: a call over a range of eight days has been rejected.
C6_Witness ==
    /\ nCalls = 1
    /\ filters.toTimestamp - filters.fromTimestamp = 8
    /\ calls[1].pc = "failed"
    /\ calls[1].issued = <<>>

\* C7: a call with fromTimestamp >= toTimestamp is rejected before any request
\* is issued.
C7_EmptyRangeRejected ==
    \A c \in 1..nCalls :
        filters.fromTimestamp >= filters.toTimestamp =>
            /\ calls[c].issued = <<>>
            /\ calls[c].pc = "failed"

RECURSIVE PagesInOrder(_, _)
PagesInOrder(lo, hi) ==
    IF lo > hi THEN <<>> ELSE PageTrades(lo) \o PagesInOrder(lo + 1, hi)

\* C8: a successful call returns the trades of the first response followed by
\* those of pages 2..num_pages in ascending page order, with the pagination
\* of the first response.
C8_TradesInPageOrder ==
    \A c \in 1..nCalls :
        LET call == calls[c]
        IN  call.pc = "done" =>
                /\ call.outcome.ok
                /\ call.outcome.value.trades =
                      call.initialData.trades \o PagesInOrder(2, NumPages(call))
                /\ call.outcome.value.pagination = call.initialData.pagination

\* C8 witness: a call over five pages succeeded although a page of a batch
\* resolved before a lower page.
C8_Witness ==
    \E c \in 1..nCalls :
        /\ calls[c].pc = "done"
        /\ calls[c].totalPages = 5
        /\ calls[c].reordered
        /\ tradeData = calls[c].outcome.value

\* What C9 says of a call whose first response declared n pages.
ProgressCounts(call, n) ==
    /\ Len(call.progress) = Cardinality(Fulfilled(call))
    /\ \A k \in DOMAIN call.progress :
          /\ call.progress[k].currentPage = k
          /\ call.progress[k].totalPages = n
          /\ RatEq(call.progress[k].percentage, Rat(k * 100, n))
    /\ call.pc = "done" =>
          /\ Last(call.progress).currentPage = Last(call.progress).totalPages
          /\ RatEq(Last(call.progress).percentage, Rat(100, 1))

\* C9 as stated: one notification per resolved page, the k-th with
\* currentPage = k, totalPages = num_pages and percentage = k / totalPages x
\* 100, the last one of a successful call with currentPage = totalPages and
\* percentage = 100.
C9_ProgressCountsPages ==
    \A c \in 1..nCalls :
        IF calls[c].initialData = NULL
        THEN calls[c].progress = <<>>
        ELSE ProgressCounts(calls[c], NumPages(calls[c]))

\* C9 amended: the same for num_pages >= 1; for num_pages = 0 the one
\* notification is currentPage = 1, totalPages = 0, percentage = 100.
C9_ProgressCountsPagesFromOne ==
    \A c \in 1..nCalls :
        IF calls[c].initialData = NULL
        THEN calls[c].progress = <<>>
        ELSE IF NumPages(calls[c]) >= 1
        THEN ProgressCounts(calls[c], NumPages(calls[c]))
        ELSE calls[c].progress =
                <<[currentPage |-> 1, totalPages |-> 0,
                   percentage |-> Rat(100, 1)]>>

\* C9 witness: a call over three pages succeeded after page 3 resolved before
\* page 2, so the second notification came from page 3.
C9_Witness ==
    \E c \in 1..nCalls :
        /\ calls[c].pc = "done"
        /\ calls[c].totalPages = 3
        /\ calls[c].reordered
        /\ Len(calls[c].progress) = 3

LegsOf(trades, id, dir) ==
    {i \in DOMAIN trades : trades[i].trade_id = id /\ trades[i].direction = dir}

LinksOf(links, id) == {k \in DOMAIN links : links[k].id = id}

\* C10: for every trade list and every trade_id with exactly one buy leg and
\* one sell leg in it, processTradeData emits exactly one link with that id,
\* from the sell leg's wallet (source) to the buy leg's wallet (target).
C10_OneLinkPerMatchedTrade ==
    out # NULL =>
        \A id \in TradeIds :
            (/\ Cardinality(LegsOf(data, id, "buy")) = 1
             /\ Cardinality(LegsOf(data, id, "sell")) = 1) =>
                /\ Cardinality(LinksOf(out.graph.links, id)) = 1
                /\ \A k \in LinksOf(out.graph.links, id) :
                   \A b \in LegsOf(data, id, "buy") :
                   \A s \in LegsOf(data, id, "sell") :
                      /\ out.graph.links[k].source = data[s].wallet
                      /\ out.graph.links[k].target = data[b].wallet

\* C10 witness: a list of three legs in which the buy leg of a trade comes
\* before its sell leg, of another wallet, and the link has been emitted.
C10_Witness ==
    /\ out # NULL
    /\ Len(data) = 3
    /\ \E id \in TradeIds :
       \E b \in LegsOf(data, id, "buy") :
       \E s \in LegsOf(data, id, "sell") :
          /\ b < s
          /\ data[b].wallet # data[s].wallet
          /\ Cardinality(LegsOf(data, id, "buy")) = 1
          /\ Cardinality(LegsOf(data, id, "sell")) = 1
          /\ LinksOf(out.graph.links, id) # {}


\* The legs of wallet w in a trade list.
LegsAt(trades, w) == {i \in DOMAIN trades : trades[i].wallet = w}

RECURSIVE AmountOver(_, _)
AmountOver(trades, S) ==
    IF S = {} THEN 0
    ELSE LET i == CHOOSE j \in S : TRUE
         IN  trades[i].trade_amount + AmountOver(trades, S \ {i})

\* C11: a trade_id with only buy legs or only sell legs in the list is the id
\* of no emitted link, and the wallet of each such leg is a node whose counts
\* and totalAmount include all legs of that wallet.
C11_UnmatchedLegsGiveNoLink ==
    out # NULL =>
        \A id \in TradeIds :
            LET buys == LegsOf(data, id, "buy")
                sells == LegsOf(data, id, "sell")
                nodes == out.graph.nodes
            IN  ((buys = {}) # (sells = {})) =>
                    /\ LinksOf(out.graph.links, id) = {}
                    /\ \A i \in buys \cup sells :
                          LET w == data[i].wallet
                              mine == LegsAt(data, w)
                          IN  \E n \in DOMAIN nodes :
                                 /\ nodes[n].id = w
                                 /\ nodes[n].tradeCount = Cardinality(mine)
                                 /\ nodes[n].buyCount = Cardinality(
                                       {j \in mine : data[j].direction = "buy"})
                                 /\ nodes[n].sellCount = Cardinality(
                                       {j \in mine : data[j].direction = "sell"})
                                 /\ nodes[n].totalAmount = AmountOver(data, mine)

\* C11 witness: a list of three legs in which one trade has both legs (and its
\* link) and another has a buy leg only.
C11_Witness ==
    /\ out # NULL
    /\ Len(data) = 3
    /\ Len(out.graph.links) = 1
    /\ \E id \in TradeIds :
          /\ LegsOf(data, id, "buy") # {}
          /\ LegsOf(data, id, "sell") = {}
          /\ \A i \in LegsOf(data, id, "buy") : data[i].trade_amount > 0

\* The largest totalNotionalVolume among the nodes.
LargestVolume(nodes) ==
    CHOOSE v \in {nodes[n].totalNotionalVolume : n \in DOMAIN nodes} :
        \A n \in DOMAIN nodes : nodes[n].totalNotionalVolume <= v

\* C12: for a non-empty trade list every normalizedSize lies in [0, 1], a node
\* with the largest totalNotionalVolume has normalizedSize 1, and when the
\* largest is 0 every node has normalizedSize 1.
C12_NormalizedSizeWithinUnit ==
    out # NULL =>
        LET nodes == out.graph.nodes
        IN  \A n \in DOMAIN nodes :
               LET s == nodes[n].normalizedSize
               IN  /\ s.den > 0
                   /\ 0 <= s.num /\ s.num <= s.den
                   /\ nodes[n].totalNotionalVolume = LargestVolume(nodes) =>
                         s.num = s.den
                   /\ LargestVolume(nodes) = 0 => s.num = s.den

\* C12 witness: nodes of different positive volumes, the largest not first.
C12_Witness ==
    /\ out # NULL
    /\ Len(out.graph.nodes) >= 2
    /\ 0 < out.graph.nodes[1].totalNotionalVolume
    /\ out.graph.nodes[1].totalNotionalVolume
          < out.graph.nodes[2].totalNotionalVolume
    /\ out.graph.nodes[1].normalizedSize.num
          < out.graph.nodes[1].normalizedSize.den

\* The sum of a field over the nodes, taken by index.
NodeTotal(nodes, field, n) ==
    LET sum[k \in 0..n] ==
            IF k = 0 THEN 0 ELSE sum[k - 1] + nodes[k][field]
    IN  sum[n]

\* C13: the sum of totalAmount over the emitted nodes is twice
\* stats.totalVolume, and the sum of totalNotionalVolume is twice
\* stats.totalNotionalVolume, for every trade list.
C13_NodeSumsTwiceStats ==
    out # NULL =>
        LET nodes == out.graph.nodes
            twice(q) == Rat(2 * q.num, q.den)
        IN  /\ RatEq(twice(out.stats.totalVolume),
                     Rat(NodeTotal(nodes, "totalAmount", Len(nodes)), 1))
            /\ RatEq(twice(out.stats.totalNotionalVolume),
                     Rat(NodeTotal(nodes, "totalNotionalVolume", Len(nodes)), 1))

\* C13 witness: a list with a matched trade and an unmatched leg, so that the
\* node sum is odd.
C13_Witness ==
    /\ out # NULL
    /\ Len(data) = 3
    /\ Len(out.graph.links) = 1
    /\ NodeTotal(out.graph.nodes, "totalAmount", Len(out.graph.nodes)) = 3

\* C14: two calls on the same list emit the same nodes (order and all fields)
\* and the same links, whatever positions each call drew.
C14_AggregationRepeatable ==
    out # NULL =>
        /\ Len(out.graph.nodes) = Len(again.graph.nodes)
        /\ \A n \in DOMAIN out.graph.nodes :
           \A field \in {"id", "totalAmount", "totalNotionalVolume",
                         "tradeCount", "buyCount", "sellCount", "type",
                         "normalizedSize", "subaccountIds"} :
              out.graph.nodes[n][field] = again.graph.nodes[n][field]
        /\ out.graph.links = again.graph.links

\* C14 witness: two calls on a list of three legs whose accumulators got
\* different positions.
C14_Witness ==
    /\ out # NULL
    /\ Len(data) = 3
    /\ Len(out.graph.links) = 1
    /\ out.walletMap[1].x # again.walletMap[1].x

\* Equality of stats, the volumes compared as fractions.
SameStats(a, b) ==
    /\ a.nodeCount = b.nodeCount
    /\ a.edgeCount = b.edgeCount
    /\ RatEq(a.totalVolume, b.totalVolume)
    /\ RatEq(a.totalNotionalVolume, b.totalNotionalVolume)

\* C15: once the latest fetch has succeeded, with trades or with none, graph
\* and stats are the aggregation of the trades it returned.
C15_GraphFromLatestFetch ==
    \A c \in 1..nCalls :
        (c = nCalls /\ calls[c].pc = "done") =>
            \A random \in RandomStreams :
                LET agg == processTradeData(calls[c].outcome.value.trades,
                                            random)
                IN  /\ graph = agg.graph
                    /\ SameStats(stats, agg.stats)

\* C16: error and empty are never both set.
C16_ErrorAndEmptyExclusive == ~(error # NULL /\ empty)

\* The simulations that are running.
Running == {i \in DOMAIN simulations : simulations[i]}

\* C17: at most one simulation is running at any time, and none once the view
\* has been torn down.
C17_OneSimulationStoppedOnTeardown ==
    /\ Cardinality(Running) <= 1
    /\ ~mounted => Running = {}

\* C18: while a node is selected the hover tooltip is not displayed.
C18_NoTooltipWhileSelected ==
    ~(selectedNodeId # NoSelection /\ tooltipDisplay = "block")

\* C19: for counts with a positive total the hue does not decrease as the buy
\* ratio buyCount / (buyCount + sellCount) grows, is 0 at ratio 0 and 142 at
\* ratio 100%.
C19_HueMonotonicInBuyRatio ==
    (color # NULL /\ counts.buyCount + counts.sellCount > 0) =>
        /\ \A b \in Counts, s \in Counts :
              (/\ b + s > 0
               /\ counts.buyCount * (b + s)
                     < b * (counts.buyCount + counts.sellCount))
                 => color.hue <= calculateNodeColor(b, s).hue
        /\ counts.buyCount = 0 => color.hue = 0
        /\ counts.sellCount = 0 => color.hue = 142

\* C19 witness: 29 buys and 71 sells, where the double-precision ratio falls
\* to 28 percent, coloured with hue 39.
C19_Witness ==
    /\ color # NULL
    /\ counts = [buyCount |-> 29, sellCount |-> 71]
    /\ color.hue = 39

\* C20: gray exactly for no trades, pure red exactly for sells only, pure
\* green exactly for buys only, an interpolated hue otherwise.
C20_PureColorsOnlyAtExtremes ==
    color # NULL =>
        /\ color = Gray <=> (counts.buyCount = 0 /\ counts.sellCount = 0)
        /\ color = Red <=> (counts.buyCount = 0 /\ counts.sellCount > 0)
        /\ color = Green <=> (counts.sellCount = 0 /\ counts.buyCount > 0)

\* C21: every node emitted for a new graph carries a position x in
\* [0, width] and y in [0, height].
C21_EmittedNodesCarryPosition ==
    out # NULL =>
        \A n \in DOMAIN out.graph.nodes :
            LET node == out.graph.nodes[n]
            IN  /\ {"x", "y"} \subseteq DOMAIN node
                /\ 0 <= node.x.num /\ node.x.num <= width * node.x.den
                /\ 0 <= node.y.num /\ node.y.num <= height * node.y.den

\* C22: once the filters have been replaced, no simulation runs while the new
\* fetch is in flight or the view is loading, in error or empty: the stopped
\* simulation is restarted by nothing before the next graph is seeded.
C22_NoSimulationUntilNextGraph ==
    (/\ nCalls >= 2
     /\ \/ calls[nCalls].pc \in {"page1", "batch"}
        \/ loading \/ error # NULL \/ empty)
       => Running = {}

\* The nodes of graph some gesture in progress is dragging.
Dragged == {g.subject : g \in {h \in gestures : ~h.detached}}

\* C23: a node is pinned only while it is being dragged, and the alpha target
\* of the simulation is 0.3 exactly while at least one drag is in progress.
C23_PinnedAndHeatedWhileDragged ==
    /\ \A id \in Wallets : fixed[id] \notin Unpinned => id \in Dragged
    /\ simulationRef # 0 =>
          /\ alphaTarget[simulationRef]
                \in {AlphaTargetDefault, AlphaTargetDrag}
          /\ alphaTarget[simulationRef] = AlphaTargetDrag <=> gestures # {}

RECURSIVE NotionalOver(_, _)
NotionalOver(trades, S) ==
    IF S = {} THEN 0
    ELSE LET i == CHOOSE j \in S : TRUE
         IN  trades[i].trade_amount * trades[i].index_price
                + NotionalOver(trades, S \ {i})

\* C24: for every emitted node, tradeCount = buyCount + sellCount = the number
\* of legs of the list whose wallet is the node's id, and totalNotionalVolume
\* is the sum of trade_amount x index_price over those legs.
C24_CountsAndNotionalPerWallet ==
    out # NULL =>
        \A n \in DOMAIN out.graph.nodes :
            LET node == out.graph.nodes[n]
                mine == LegsAt(data, node.id)
            IN  /\ node.tradeCount = node.buyCount + node.sellCount
                /\ node.tradeCount = Cardinality(mine)
                /\ node.totalNotionalVolume = NotionalOver(data, mine)

\* C24 witness: a wallet with a buy leg and a sell leg of positive amounts,
\* in a list with a leg of another wallet between them.
C24_Witness ==
    /\ out # NULL
    /\ Len(data) = 3
    /\ data[1].wallet = data[3].wallet
    /\ data[1].wallet # data[2].wallet
    /\ data[1].direction # data[3].direction
    /\ \A i \in 1..3 : data[i].trade_amount > 0
    /\ \E n \in DOMAIN out.graph.nodes :
          /\ out.graph.nodes[n].id = data[1].wallet
          /\ out.graph.nodes[n].tradeCount = 2
          /\ out.graph.nodes[n].totalNotionalVolume = 4

\* The buy ratio of counts that calculateNodeColor interpolates for, else -1.
InterpolatedRatio(buyCount, sellCount) ==
    IF buyCount + sellCount = 0 THEN -1
    ELSE LET buyRatio == BuyRatio(buyCount, buyCount + sellCount)
         IN  IF buyRatio \in 1..99 THEN buyRatio ELSE -1

RatLess(a, b) == a.num * b.den < b.num * a.den

\* C25: among interpolated colours, one whose buy ratio is farther from 50
\* has the higher saturation and the higher lightness.
C25_ExtremesMoreSaturated ==
    color # NULL =>
        LET mine == InterpolatedRatio(counts.buyCount, counts.sellCount)
        IN  mine # -1 =>
               \A b \in Counts, s \in Counts :
                   LET other == InterpolatedRatio(b, s)
                   IN  (other # -1 /\ Abs(other - 50) < Abs(mine - 50)) =>
                           /\ RatLess(calculateNodeColor(b, s).saturation,
                                      color.saturation)
                           /\ RatLess(calculateNodeColor(b, s).lightness,
                                      color.lightness)

NodeIds(nodes) == {nodes[n].id : n \in DOMAIN nodes}

\* C26: for every trade list the emitted links have pairwise distinct ids, at
\* most one link per trade_id, and every link's source and target are ids of
\* emitted nodes.
C26_LinksDistinctAndAttached ==
    out # NULL =>
        LET links == out.graph.links
        IN  /\ \A k \in DOMAIN links, l \in DOMAIN links :
                  links[k].id = links[l].id => k = l
            /\ \A id \in TradeIds : Cardinality(LinksOf(links, id)) <= 1
            /\ \A k \in DOMAIN links :
                  /\ links[k].source \in NodeIds(out.graph.nodes)
                  /\ links[k].target \in NodeIds(out.graph.nodes)

\* C26 witness: three legs of one trade_id, two of them buy legs, one wallet
\* on both sides, and the one link emitted for it.
C26_Witness ==
    /\ out # NULL
    /\ Len(data) = 3
    /\ \A i \in 1..3 : data[i].trade_id = data[1].trade_id
    /\ Cardinality(LegsOf(data, data[1].trade_id, "buy")) = 2
    /\ \E b \in LegsOf(data, data[1].trade_id, "buy") :
       \E s \in LegsOf(data, data[1].trade_id, "sell") :
          data[b].wallet = data[s].wallet
    /\ Len(out.graph.links) = 1
    /\ Len(out.graph.nodes) = 2

\* The calls that have not settled.
InFlight == {c \in 1..nCalls : calls[c].pc \in {"page1", "batch"}}

\* C27: loading is true whenever some fetchTradeHistory call of the view has
\* not settled, also with two fetches overlapping.
C27_LoadingWhileInFlight == InFlight # {} => loading

\* C28: a call that has settled notifies no further progress, so that
\* loadingProgress is null whenever loading is false.
C28_NoProgressAfterSettling ==
    [][/\ \A c \in 1..nCalls :
             calls[c].pc \in {"done", "failed"} =>
                 calls'[c].progress = calls[c].progress
       /\ ~loading' => loadingProgress' = NULL]_vars

Settled(c) == calls[c].pc \in {"done", "failed"}

\* Call c settles in this step (a call refused for its range is made settled).
Settles(c) ==
    /\ c <= Len(calls')
    /\ calls'[c].pc \in {"done", "failed"}
    /\ c <= nCalls => ~Settled(c)

\* fetchData's three outcomes for the call c that has just settled.
GraphUpdated(c) ==
    /\ calls'[c].pc = "done"
    /\ calls'[c].outcome.value.trades # <<>>
    /\ \E random \in RandomStreams :
          graph' = processTradeData(calls'[c].outcome.value.trades,
                                    random).graph
    /\ UNCHANGED <<empty, error>>

EmptyShown(c) ==
    /\ calls'[c].pc = "done"
    /\ calls'[c].outcome.value.trades = <<>>
    /\ empty'
    /\ UNCHANGED <<graph, error>>

ErrorShown(c) ==
    /\ calls'[c].pc = "failed"
    /\ error' = calls'[c].outcome.error
    /\ error' # NULL
    /\ UNCHANGED graph
    /\ empty' = (empty /\ c <= nCalls)

\* C29: when every issued request comes back, every call settles, whatever
\* num_pages is; the step in which it settles clears loading and has exactly
\* one of the outcomes graph updated, empty, error.
C29_EveryCallSettlesWithOneOutcome ==
    /\ (nCalls = 1) ~> (nCalls = 1 /\ Settled(1) /\ ~loading)
    /\ [][\A c \in 1..Len(calls') :
             Settles(c) =>
                 /\ ~loading'
                 /\ Cardinality({o \in {"graph", "empty", "error"} :
                        \/ o = "graph" /\ GraphUpdated(c)
                        \/ o = "empty" /\ EmptyShown(c)
                        \/ o = "error" /\ ErrorShown(c)}) = 1]_vars

\* C29 witness: a call over five pages ran its first batch, failed on page 5
\* and the view shows the error with loading cleared.
C29_Witness ==
    /\ nCalls = 1
    /\ calls[1].pc = "failed"
    /\ calls[1].totalPages = 5
    /\ calls[1].rejected = {5}
    /\ calls[1].pending = {}
    /\ ~loading
    /\ error = calls[1].outcome.error

\* C30: a selected node is a node of the graph on display: the selection is
\* cleared when the view is loading, empty or in error and when the graph is
\* rebuilt.
C30_SelectionIsOfShownGraph ==
    selectedNodeId # NoSelection =>
        /\ ~loading /\ error = NULL /\ ~empty
        /\ selectedNodeId \in NodeIds(graph.nodes)

====
